---- MODULE Spec2Model ----
(***************************************************************************)
(* Newsletter ingestion core of the intranet portal:                       *)
(*   app/services/graph_client.py       (fetching)                         *)
(*   app/services/newsletter_sanitizer.py (validation helpers, sanitizer,  *)
(*                                         inline images)                  *)
(*   app/services/newsletter_ingest.py  (validation, upsert, sync loop)    *)
(*                                                                         *)
(* Text is modelled as sequences of one-character strings, so that         *)
(* lower(), strip(), endswith() and slicing are computed, not assumed.     *)
(* HTML is modelled as a sequence of tokens (see the HTML section).        *)
(***************************************************************************)
EXTENDS Integers, Sequences, FiniteSets, TLC

VARIABLES
    db,         \* rows of table newsletters, in insertion order
    files,      \* names of the files written under uploads_dir
    clock,      \* datetime.now(), in seconds
    upstream,   \* the messages listed in the mail folder at the latest sync
    raw,        \* raw_newsletters of the running sync
    pc,         \* "idle" | "loop" | "done": position in sync_newsletters
                \* (in SpecConcurrent: the position of each run)
    idx,        \* number of raw_newsletters already handled by the loop
    report,     \* sync_result
    fatal,      \* what GraphClient.sync_newsletters hit: "none"|"token"|"folder"
    last,       \* outcome of the latest loop iteration
    hist,       \* outcomes of the loop iterations of the running sync, in order
                \* (in SpecSaves: the calls of process_inline_images, in order)
    memo,       \* per message id: what process_inline_images last returned for it
    uin,        \* input of the function under unit check
    uout        \* its output

vars == <<db, files, clock, upstream, raw, pc, idx, report, fatal,
          last, hist, memo, uin, uout>>

----------------------------------------------------------------------------
(* Bounds of the model *)

MaxMsgs == 2        \* messages listed per sync
MaxClock == 1       \* seconds the clock may advance
MaxDirect == 2      \* rows the persistence layer is driven to on its own

----------------------------------------------------------------------------
(* Text *)

LowerLetters == <<"a", "b", "c", "d", "e", "f", "g", "h", "i", "j", "k", "l", "m", "n", "o", "p", "q", "r", "s", "t", "u", "v", "w", "x", "y", "z">>
UpperLetters == <<"A", "B", "C", "D", "E", "F", "G", "H", "I", "J", "K", "L", "M", "N", "O", "P", "Q", "R", "S", "T", "U", "V", "W", "X", "Y", "Z">>

\* str.lower() on one character
LowerChar(c) ==
    IF \E i \in 1..Len(UpperLetters) : UpperLetters[i] = c
    THEN LowerLetters[CHOOSE i \in 1..Len(UpperLetters) : UpperLetters[i] = c]
    ELSE c

\* str.lower()
lower(s) == [i \in 1..Len(s) |-> LowerChar(s[i])]

\* str.upper() on one character
UpperChar(c) ==
    IF \E i \in 1..Len(LowerLetters) : LowerLetters[i] = c
    THEN UpperLetters[CHOOSE i \in 1..Len(LowerLetters) : LowerLetters[i] = c]
    ELSE c

\* str.upper()
upper(s) == [i \in 1..Len(s) |-> UpperChar(s[i])]

\* str.endswith(suffix)
endswith(s, suffix) ==
    /\ Len(suffix) <= Len(s)
    /\ SubSeq(s, Len(s) - Len(suffix) + 1, Len(s)) = suffix

\* str.strip(chars): drop leading and trailing characters that are in chars
RECURSIVE lstrip(_, _)
lstrip(s, cs) ==
    IF s # <<>> /\ Head(s) \in cs THEN lstrip(Tail(s), cs) ELSE s

RECURSIVE rstrip(_, _)
rstrip(s, cs) ==
    IF s # <<>> /\ s[Len(s)] \in cs THEN rstrip(SubSeq(s, 1, Len(s) - 1), cs) ELSE s

strip(s, cs) == rstrip(lstrip(s, cs), cs)

Whitespace == {" "}

\* s[:n]
Prefix(s, n) == SubSeq(s, 1, IF Len(s) < n THEN Len(s) ELSE n)

Digits == {"0", "1", "2", "3", "4", "5", "6", "7", "8", "9"}

\* the concatenation of Op(x) over the elements x of s
RECURSIVE FlatMap(_, _)
FlatMap(Op(_), s) == IF s = <<>> THEN <<>> ELSE Op(Head(s)) \o FlatMap(Op, Tail(s))

----------------------------------------------------------------------------
(* Sender domain: NewsletterSanitizer.validate_sender_domain *)

required_domain == <<"@", "g", "r", "o", "n", "v", "o", "l", "d", "m", "a", "s", "k", "i", "n", ".", "n", "o">>

\* sub in s
contains(s, sub) ==
    \E i \in 1..(Len(s) - Len(sub) + 1) : SubSeq(s, i, i + Len(sub) - 1) = sub

validate_sender_domain_contains(email_address) ==
    IF email_address # <<>>
    THEN contains(lower(email_address), lower(required_domain))
    ELSE FALSE

\* The address is <<>> when 'from', 'emailAddress' or 'address' is missing.

validate_sender_domain(email_address) ==
    IF email_address # <<>>
    THEN endswith(lower(email_address), lower(required_domain))
    ELSE FALSE

----------------------------------------------------------------------------
(* Authentication-Results: NewsletterSanitizer.parse_authentication_results *)

AuthHeaderName == <<"a", "u", "t", "h", "e", "n", "t", "i", "c", "a", "t", "i", "o", "n", "-", "r", "e", "s", "u", "l", "t", "s">>

\* A header is [name |-> text, value |-> sequence of [mech, res]]: the value
\* "spf=pass ...; dkim=FAIL ..." is the sequence of its mech=res items.
\* str.lower() on the words a header value is made of
lowerWord(w) ==
    CASE w = "PASS" -> "pass"
      [] w = "FAIL" -> "fail"
      [] w = "DKIM" -> "dkim"
      [] OTHER -> w

lowerValue(v) == [i \in 1..Len(v) |-> [mech |-> lowerWord(v[i].mech), res |-> lowerWord(v[i].res)]]

\* re.search(r'<mech>=([^\s;]+)', auth_value): the first item of that mechanism
HasMech(v, mech) == \E i \in 1..Len(v) : v[i].mech = mech
FirstMech(v, mech) ==
    v[CHOOSE i \in 1..Len(v) : v[i].mech = mech /\ \A j \in 1..(i - 1) : v[j].mech # mech].res

Overall_not_found_counted(spf, dkim, dmarc) ==
    IF \A i \in 1..3 : <<spf, dkim, dmarc>>[i] \in {"pass", "none"}
    THEN "pass"
    ELSE IF \E i \in 1..3 : <<spf, dkim, dmarc>>[i] = "fail"
    THEN "fail"
    ELSE "partial"

\* lines 578-584, in the order the code tests them

Overall(spf, dkim, dmarc) ==
    IF \A i \in 1..3 : <<spf, dkim, dmarc>>[i] # "not_found"
                          => <<spf, dkim, dmarc>>[i] \in {"pass", "none"}
    THEN "pass"
    ELSE IF \E i \in 1..3 : <<spf, dkim, dmarc>>[i] = "fail"
    THEN "fail"
    ELSE "partial"

\* lines 559-576: every Authentication-Results header, in order, overwrites the
\* mechanisms it mentions
RECURSIVE ParseHeaders(_, _)
ParseHeaders(headers, acc) ==
    IF headers = <<>> THEN acc
    ELSE LET h == Head(headers)
             v == lowerValue(h.value)
             upd == IF lower(h.name) = AuthHeaderName
                    THEN [spf |-> IF HasMech(v, "spf") THEN FirstMech(v, "spf") ELSE acc.spf,
                          dkim |-> IF HasMech(v, "dkim") THEN FirstMech(v, "dkim") ELSE acc.dkim,
                          dmarc |-> IF HasMech(v, "dmarc") THEN FirstMech(v, "dmarc") ELSE acc.dmarc]
                    ELSE acc
         IN ParseHeaders(Tail(headers), upd)

parse_authentication_results(headers) ==
    LET m == ParseHeaders(headers, [spf |-> "not_found", dkim |-> "not_found", dmarc |-> "not_found"])
    IN [spf |-> m.spf, dkim |-> m.dkim, dmarc |-> m.dmarc,
        overall |-> Overall(m.spf, m.dkim, m.dmarc)]

----------------------------------------------------------------------------
(* URLs and SafeLinks: process_safelinks, _extract_url_from_safelink,       *)
(* _is_safe_url. A URL is a sequence of characters. An href is             *)
(* [wrapper, text]: for a URL that the pattern of line 199 matches          *)
(* (https://<label>.safelinks.protection.outlook.com/?<query>) wrapper is   *)
(* TRUE and text is its query string; otherwise text is the whole URL.      *)
(***************************************************************************)

Letters == {LowerLetters[i] : i \in 1..26} \cup {UpperLetters[i] : i \in 1..26}

\* the character a %XX escape stands for; the escapes of the model are
\* %3A, %2F, %25 and %20
Unescaped(a, b) ==
    CASE a = "3" /\ b = "A" -> ":"
      [] a = "2" /\ b = "F" -> "/"
      [] a = "2" /\ b = "5" -> "%"
      [] a = "2" /\ b = "0" -> " "

IsEscape(s) ==
    /\ Len(s) >= 3
    /\ s[1] = "%"
    /\ <<s[2], s[3]>> \in {<<"3", "A">>, <<"2", "F">>, <<"2", "5">>, <<"2", "0">>}

\* urllib.parse.unquote: one pass of percent-decoding
RECURSIVE unquote(_)
unquote(s) ==
    IF s = <<>> THEN <<>>
    ELSE IF IsEscape(s) THEN <<Unescaped(s[2], s[3])>> \o unquote(SubSeq(s, 4, Len(s)))
    ELSE <<Head(s)>> \o unquote(Tail(s))

\* position of the first c in s, 0 if there is none
IndexOf(s, c) ==
    IF \E i \in 1..Len(s) : s[i] = c
    THEN CHOOSE i \in 1..Len(s) : s[i] = c /\ \A j \in 1..(i - 1) : s[j] # c
    ELSE 0

\* str.split(sep)
RECURSIVE split(_, _)
split(s, sep) ==
    IF IndexOf(s, sep) = 0 THEN <<s>>
    ELSE <<SubSeq(s, 1, IndexOf(s, sep) - 1)>>
         \o split(SubSeq(s, IndexOf(s, sep) + 1, Len(s)), sep)

\* urllib.parse.parse_qs on one name=value field: <<>> or <<[name, value]>>;
\* a field without '=' or with an empty value is dropped, name and value are
\* percent-decoded
QueryField(field) ==
    IF IndexOf(field, "=") = 0 \/ IndexOf(field, "=") = Len(field) THEN <<>>
    ELSE <<[name |-> unquote(SubSeq(field, 1, IndexOf(field, "=") - 1)),
            value |-> unquote(SubSeq(field, IndexOf(field, "=") + 1, Len(field)))]>>

\* urllib.parse.parse_qs: the fields of the query, in order
parse_qs(query) == FlatMap(QueryField, split(query, "&"))

UrlKey == <<"u", "r", "l">>

\* 'url' in query_params
HasUrlParam(params) == \E i \in 1..Len(params) : params[i].name = UrlKey

\* query_params['url'][0]
FirstUrlParam(params) ==
    params[CHOOSE i \in 1..Len(params) :
              params[i].name = UrlKey /\ \A j \in 1..(i - 1) : params[j].name # UrlKey].value

\* urlparse(url).scheme: the text before the first ':' when it starts with a
\* letter and is made of letters, digits, '+', '-', '.'; lower-cased
HasScheme(url) ==
    /\ IndexOf(url, ":") > 1
    /\ url[1] \in Letters
    /\ \A i \in 1..(IndexOf(url, ":") - 1) : url[i] \in Letters \cup Digits \cup {"+", "-", "."}

Scheme(url) == IF HasScheme(url) THEN lower(SubSeq(url, 1, IndexOf(url, ":") - 1)) ELSE <<>>

AfterScheme(url) == IF HasScheme(url) THEN SubSeq(url, IndexOf(url, ":") + 1, Len(url)) ELSE url

\* the text up to the first '/', '?' or '#'
RECURSIVE UpToDelimiter(_)
UpToDelimiter(s) ==
    IF s = <<>> \/ Head(s) \in {"/", "?", "#"} THEN <<>>
    ELSE <<Head(s)>> \o UpToDelimiter(Tail(s))

\* urlparse(url).netloc
NetlocOf(rest) ==
    IF Len(rest) >= 2 /\ rest[1] = "/" /\ rest[2] = "/"
    THEN UpToDelimiter(SubSeq(rest, 3, Len(rest)))
    ELSE <<>>

Netloc(url) == NetlocOf(AfterScheme(url))

SchemeHttp == <<"h", "t", "t", "p">>
SchemeHttps == <<"h", "t", "t", "p", "s">>
SchemeFtp == <<"f", "t", "p">>
SchemeJavascript == <<"j", "a", "v", "a", "s", "c", "r", "i", "p", "t">>
SchemeData == <<"d", "a", "t", "a">>
SchemeFile == <<"f", "i", "l", "e">>
SchemeMailto == <<"m", "a", "i", "l", "t", "o">>

\* _is_safe_url
is_safe_url(url) ==
    IF Scheme(url) \in {SchemeJavascript, SchemeData, SchemeFile, SchemeFtp} THEN FALSE
    ELSE IF Scheme(url) \notin {SchemeHttp, SchemeHttps} THEN FALSE
    ELSE Netloc(url) # <<>>

\* lines 246-253: the value that parse_qs returned for 'url' is unquoted again
ExtractChecked(original_url) ==
    IF is_safe_url(original_url) THEN [found |-> TRUE, url |-> original_url]
    ELSE [found |-> FALSE, url |-> <<>>]

ExtractFrom(params) ==
    IF HasUrlParam(params) THEN ExtractChecked(unquote(FirstUrlParam(params)))
    ELSE [found |-> FALSE, url |-> <<>>]

\* _extract_url_from_safelink: found FALSE is None
extract_url_from_safelink(query) == ExtractFrom(parse_qs(query))

----------------------------------------------------------------------------
(* HTML                                                                    *)
(* A document is a sequence of tokens [t, cid, file]:                      *)
(*   "text"     a run of plain text                                        *)
(*   "p"        an allow-listed element with its text                      *)
(*   "div"      the <div>..</div> container put around a plain-text body   *)
(*   "comment"  an HTML comment                                            *)
(*   "script"   a <script> element and the text inside it                  *)
(*   "imgcid"   <img src="cid:REF">, REF in field cid                      *)
(*   "img"      an <img> element that has no src attribute                 *)
(*   "txtcid"   the text cid:REF followed by white space                   *)
(*   "imgbare"  <img src=cid:REF> or <img src=cid:REF ..>: the src is not  *)
(*              quoted, and white space or > follows REF                   *)
(*   "imglocal" <img src="/static/newsletters/FILE">, FILE in field file   *)
(*   "txtlocal" the text /static/newsletters/FILE                          *)
(*   "txthandler" text in which onclick="x" is written out                 *)
(*   "elem"     an element given by its tag name and attribute names as    *)
(*              written (fields tag, attrs), inner telling whether it has  *)
(*              text inside                                                *)
(*   "a"        an anchor, its href in field href                          *)
(***************************************************************************)

NoFile == [mid |-> <<>>, hash |-> <<>>, index |-> 0, ts |-> 0, ext |-> ""]

Tok(t) == [t |-> t, cid |-> <<>>, file |-> NoFile]
CidTok(t, ref) == [t |-> t, cid |-> ref, file |-> NoFile]
LocalTok(t, f) == [t |-> t, cid |-> <<>>, file |-> f]

ElemTok(tag, attrs, inner) ==
    [t |-> "elem", cid |-> <<>>, file |-> NoFile, tag |-> tag, attrs |-> attrs, inner |-> inner]

Href(wrapper, text) == [wrapper |-> wrapper, text |-> text]

\* an anchor element <a href="..">
LinkTok(href) == [t |-> "a", cid |-> <<>>, file |-> NoFile, href |-> href]

\* the HTML parser lower-cases tag and attribute names; the names of the model
lowerName(n) ==
    CASE n = "SCRIPT" -> "script"
      [] n = "Script" -> "script"
      [] n = "IFRAME" -> "iframe"
      [] n = "P" -> "p"
      [] n = "ONCLICK" -> "onclick"
      [] n = "OnLoad" -> "onload"
      [] OTHER -> n

ALLOWED_TAGS ==
    {"p", "br", "strong", "b", "em", "i", "u", "ul", "ol", "li",
     "h1", "h2", "h3", "h4", "h5", "h6",
     "div", "span", "blockquote", "pre", "code",
     "a", "img", "table", "thead", "tbody", "tr", "th", "td",
     "hr", "small", "sub", "sup"}

ALLOWED_ATTRIBUTES(tag) ==
    (CASE tag = "a" -> {"href", "title"}
       [] tag = "img" -> {"src", "alt", "title", "width", "height", "style"}
       [] tag \in {"div", "span", "p"} -> {"style"}
       [] tag = "table" -> {"style", "border", "cellpadding", "cellspacing"}
       [] tag \in {"th", "td"} -> {"style", "colspan", "rowspan"}
       [] OTHER -> {})
    \cup {"class"}

ALLOWED_PROTOCOLS == {SchemeHttp, SchemeHttps, SchemeMailto, SchemeData}

TagAllowed_any(tag) == TRUE

TagAllowed(tag) == lowerName(tag) \in ALLOWED_TAGS

AttributeAllowed(tag, name) == lowerName(name) \in ALLOWED_ATTRIBUTES(lowerName(tag))

\* an element of the allow-list keeps its allow-listed attributes; any other
\* element loses its tags and keeps the text inside it (strip=True)
BleachElem(tok) ==
    IF TagAllowed(tok.tag)
    THEN LET Keep(name) == AttributeAllowed(tok.tag, name)
         IN <<[tok EXCEPT !.tag = lowerName(tok.tag),
                          !.attrs = [i \in 1..Len(SelectSeq(tok.attrs, Keep)) |->
                                       lowerName(SelectSeq(tok.attrs, Keep)[i])]]>>
    ELSE IF tok.inner THEN <<Tok("text")>> ELSE <<>>

\* an href whose scheme is not an allowed protocol is dropped from its anchor
BleachLink(tok) ==
    IF tok.href.wrapper \/ Scheme(tok.href.text) \in ALLOWED_PROTOCOLS \cup {<<>>}
    THEN tok
    ELSE [tok EXCEPT !.href = Href(FALSE, <<>>)]

\* bleach.clean(tags=ALLOWED_TAGS, attributes=ALLOWED_ATTRIBUTES,
\* protocols=ALLOWED_PROTOCOLS, strip=True, strip_comments=True) on one token:
\* a comment goes, a disallowed element loses its tags and keeps its text, and
\* a src whose scheme (cid) is not an allowed protocol is dropped from its img.
BleachToken(tok) ==
    CASE tok.t = "comment" -> <<>>
      [] tok.t = "script" -> <<Tok("text")>>
      [] tok.t \in {"imgcid", "imgbare"} -> <<Tok("img")>>
      [] tok.t = "elem" -> BleachElem(tok)
      [] tok.t = "a" -> <<BleachLink(tok)>>
      [] OTHER -> <<tok>>

\* the attribute names of the model that on\w+ matches
HandlerNames == {"onclick", "onload", "onerror"}

\* _remove_dangerous_attributes (re.IGNORECASE): on..="..", wherever it is
\* written, is cut out of the text that bleach returned
RemoveDangerous(tok) ==
    CASE tok.t = "txthandler" -> <<Tok("text")>>
      [] tok.t = "elem" ->
           LET Harmless(name) == lowerName(name) \notin HandlerNames
           IN <<[tok EXCEPT !.attrs = SelectSeq(tok.attrs, Harmless)]>>
      [] OTHER -> <<tok>>

\* NewsletterSanitizer.sanitize_html; _sanitize_inline_styles finds no style
\* to rewrite in these tokens.
sanitize_html(html_content) ==
    IF html_content = <<>> THEN <<>>
    ELSE FlatMap(RemoveDangerous, FlatMap(BleachToken, html_content))

----------------------------------------------------------------------------
(* SafeLinks in the anchors of a document *)

\* replace_safelink (lines 201-216) on the href of one anchor
ReplaceSafelink(tok, original) ==
    IF original.found THEN [tok EXCEPT !.href = Href(FALSE, original.url)] ELSE tok

SafelinkToken(tok) ==
    IF tok.t = "a" /\ tok.href.wrapper
    THEN <<ReplaceSafelink(tok, extract_url_from_safelink(tok.href.text))>>
    ELSE <<tok>>

\* process_safelinks
process_safelinks(html_content) ==
    IF html_content = <<>> THEN html_content
    ELSE FlatMap(SafelinkToken, html_content)

----------------------------------------------------------------------------
(* Inline images: NewsletterSanitizer.process_inline_images and helpers *)

\* An attachment is [contentId, contentBytes, contentType, ext]: contentId is
\* <<>> when absent; contentBytes is "" (absent), "ok" (valid base64) or "bad"
\* (base64 that does not decode); ext is the extension of its name.

WordChars == {LowerLetters[i] : i \in 1..26} \cup {UpperLetters[i] : i \in 1..26}
                \cup Digits \cup {"_"}

\* re.sub(r'[^\w\-_\.]', '_', safe_name) on one character
SafeChar(c) == IF c \in WordChars \cup {"-", "."} THEN c ELSE "_"

\* hashlib.md5(content_id).hexdigest()[:8]: a digest of the content id as
\* written; distinct content ids of the model have distinct digests.
md5_8(content_id) == <<"#">> \o content_id

content_type_map(content_type) ==
    CASE content_type = "image/jpeg" -> ".jpg"
      [] content_type = "image/png" -> ".png"
      [] content_type = "image/gif" -> ".gif"
      [] OTHER -> ".jpg"

\* _generate_safe_filename: msg_<message_id[:8]>_<hash>_<index>_<timestamp><ext>
IdPrefixLen == 8

generate_safe_filename(ext0, message_id, content_id, index, content_type, now) ==
    [mid |-> [i \in 1..Len(Prefix(message_id, IdPrefixLen)) |-> SafeChar(message_id[i])],
     hash |-> md5_8(content_id),
     index |-> index,
     ts |-> now,
     ext |-> IF ext0 = "" THEN content_type_map(content_type) ELSE ext0]

\* _save_attachment_locally: [ok, name]; ok is FALSE when b64decode raises
save_attachment_locally(att, message_id, content_id, index, now) ==
    IF att.contentBytes = "bad"
    THEN [ok |-> FALSE, name |-> NoFile]
    ELSE [ok |-> TRUE,
          name |-> generate_safe_filename(att.ext, message_id, content_id, index,
                                          att.contentType, now)]

RefMatches_as_written(tok, clean_content_id) ==
    \/ /\ tok.t \in {"imgcid", "imgbare"}
       /\ \/ tok.cid = clean_content_id
          \/ tok.cid = <<"<">> \o clean_content_id \o <<">">>
    \/ /\ tok.t = "txtcid"
       /\ tok.cid = clean_content_id

\* _replace_cid_references, per token. Patterns 1-2 (src quoted or not, any
\* case) and 3 (src quoted or not, bracketed) rewrite an img; pattern 4
\* rewrites cid:REF in text. Every pattern is applied with re.IGNORECASE.
RefMatches(tok, clean_content_id) ==
    \/ /\ tok.t \in {"imgcid", "imgbare"}
       /\ \/ lower(tok.cid) = lower(clean_content_id)
          \/ lower(tok.cid) = <<"<">> \o lower(clean_content_id) \o <<">">>
    \/ /\ tok.t = "txtcid"
       /\ lower(tok.cid) = lower(clean_content_id)

ReplaceHits(html_content, hits, local_path) ==
    [count |-> Cardinality(hits),
     html |-> [i \in 1..Len(html_content) |->
                 IF i \in hits
                 THEN LocalTok(IF html_content[i].t = "txtcid" THEN "txtlocal" ELSE "imglocal",
                               local_path)
                 ELSE html_content[i]]]

RefHits(html_content, clean_content_id) ==
    {i \in 1..Len(html_content) : RefMatches(html_content[i], clean_content_id)}

replace_cid_references(html_content, content_id, local_path) ==
    ReplaceHits(html_content, RefHits(html_content, strip(content_id, {"<", ">"})), local_path)

AfterSave_first_saved_is_hero(st, local_path, rep) ==
    [html |-> rep.html,
     hero |-> IF st.hero = NoFile THEN local_path ELSE st.hero,
     count |-> IF rep.count > 0 THEN st.count + 1 ELSE st.count,
     files |-> st.files \cup {local_path},
     saves |-> st.saves]

\* lines 356-373: the attachment was saved under local_path; rep is what
\* _replace_cid_references returned
AfterSave(st, local_path, rep) ==
    IF rep.count > 0
    THEN [html |-> rep.html,
          hero |-> IF st.hero = NoFile THEN local_path ELSE st.hero,
          count |-> st.count + 1,
          files |-> st.files \cup {local_path},
          saves |-> st.saves]
    ELSE [st EXCEPT !.files = st.files \cup {local_path}]

\* lines 346-356; saves lists the files written (open(file_path, 'wb')), in
\* order, each with the content id and content type of its attachment
AfterSaveAttempt(st, att, content_id, saved) ==
    IF ~saved.ok THEN st
    ELSE AfterSave([st EXCEPT !.saves = Append(@, [name |-> saved.name,
                                                   content_id |-> content_id,
                                                   contentType |-> att.contentType])],
                   saved.name, replace_cid_references(st.html, content_id, saved.name))

\* lines 330-354: one attachment; st = [html, hero, count, files, saves]
ImageStep(att, message_id, now, st, content_id) ==
    IF att.contentId = <<>> \/ att.contentBytes = "" THEN st
    ELSE AfterSaveAttempt(st, att, content_id,
                          save_attachment_locally(att, message_id, content_id, st.count, now))

\* line 328: the loop over the attachments
RECURSIVE ImageLoop(_, _, _, _)
ImageLoop(attachments, message_id, now, st) ==
    IF attachments = <<>> THEN st
    ELSE ImageLoop(Tail(attachments), message_id, now,
                   ImageStep(Head(attachments), message_id, now, st,
                             strip(Head(attachments).contentId, {"<", ">"})))

\* lines 375-384
ImageResult(st) ==
    [ret |-> <<st.html, st.hero, st.count > 0>>, files |-> st.files, saves |-> st.saves]

\* process_inline_images: ret is the tuple the function returns,
\* (processed_html, hero_image_path, has_inline_attachments); hero NoFile is None.
process_inline_images(html_content, attachments, message_id, now, files0) ==
    IF attachments = <<>>
    THEN [ret |-> <<html_content, NoFile, FALSE>>, files |-> files0, saves |-> <<>>]
    ELSE ImageResult(ImageLoop(attachments, message_id, now,
                               [html |-> html_content, hero |-> NoFile, count |-> 0,
                                files |-> files0, saves |-> <<>>]))

----------------------------------------------------------------------------
(* Validation: NewsletterIngestService._validate_newsletter                *)
(* A message (newsletter_data) is                                          *)
(*   [message_id, subject, sender, headers, body, attachments]             *)
(* with sender the address of from.emailAddress (<<>> when missing) and    *)
(* body = [contentType, content].                                          *)
(***************************************************************************)

NoAuth == [spf |-> "not_found", dkim |-> "not_found", dmarc |-> "not_found", overall |-> "unknown"]

NoData == [message_id |-> <<>>, subject |-> <<>>, sender_email |-> <<>>,
           html_raw |-> <<>>, html_sanitized |-> <<>>, auth_results |-> NoAuth,
           has_attachments |-> FALSE, hero_image_path |-> NoFile]

ReasonMissingId == "Missing message ID"
ReasonMissingSubject == "Missing subject"
ReasonSender == "Invalid sender domain - must be from @gronvoldmaskin.no"
ReasonAuth == "Failed email authentication (SPF/DKIM/DMARC)"
ReasonNoContent == "No content found"
ReasonSanitize == "HTML sanitization failed"
ReasonException == "Validation error: too many values to unpack (expected 2)"

\* lines 103-109: the HTML of the body; a plain-text body is put in a <div>
HtmlContent(body_data) ==
    CASE body_data.contentType = "html" -> body_data.content
      [] body_data.contentType = "text" -> <<Tok("div")>> \o body_data.content
      [] OTHER -> <<>>

\* line 122: the number of names the returned tuple is unpacked into
UnpackNames == 2

\* lines 134-145
ProcessedData(m, auth_results, html_content, processed_html, hero_image_path) ==
    [message_id |-> m.message_id,
     subject |-> strip(m.subject, Whitespace),
     sender_email |-> m.sender,
     html_raw |-> html_content,
     html_sanitized |-> processed_html,
     auth_results |-> auth_results,
     has_attachments |-> Len(m.attachments) > 0,
     hero_image_path |-> hero_image_path]

\* produced: the tuple process_inline_images returned, <<>> if it did not run
Rejected(reason, steps, files0, produced) ==
    [valid |-> FALSE, reason |-> reason, data |-> NoData, steps |-> steps, files |-> files0,
     produced |-> produced]

\* lines 121-149: img is what process_inline_images returned and did
ValidateImages(m, auth_results, html_content, img) ==
    IF Len(img.ret) # UnpackNames
    THEN \* ValueError at the tuple assignment of line 122, caught at line 151
         Rejected(ReasonException, <<"auth", "sanitize", "images">>, img.files, img.ret)
    ELSE [valid |-> TRUE, reason |-> "",
          data |-> ProcessedData(m, auth_results, html_content, img.ret[1], img.ret[2]),
          steps |-> <<"auth", "sanitize", "images">>,
          files |-> img.files,
          produced |-> img.ret]

\* lines 115-124
ValidateSanitized(m, auth_results, html_content, sanitized_html, now, files0) ==
    IF sanitized_html = <<>>
    THEN Rejected(ReasonSanitize, <<"auth", "sanitize">>, files0, <<>>)
    ELSE ValidateImages(m, auth_results, html_content,
                        process_inline_images(sanitized_html, m.attachments, m.message_id,
                                              now, files0))

\* lines 102-116
ValidateContent(m, auth_results, html_content, now, files0) ==
    IF html_content = <<>> THEN Rejected(ReasonNoContent, <<"auth">>, files0, <<>>)
    ELSE ValidateSanitized(m, auth_results, html_content, sanitize_html(html_content),
                           now, files0)

\* lines 95-100
ValidateAuth(m, auth_results, now, files0) ==
    IF auth_results.overall = "fail" THEN Rejected(ReasonAuth, <<"auth">>, files0, <<>>)
    ELSE ValidateContent(m, auth_results, HtmlContent(m.body), now, files0)

\* _validate_newsletter. The result carries, besides valid, reason and
\* processed_data, the steps that ran and the upload directory afterwards.
validate_newsletter(m, now, files0) ==
    IF m.message_id = <<>> THEN Rejected(ReasonMissingId, <<>>, files0, <<>>)
    ELSE IF strip(m.subject, Whitespace) = <<>> THEN Rejected(ReasonMissingSubject, <<>>, files0, <<>>)
    ELSE IF ~validate_sender_domain(m.sender) THEN Rejected(ReasonSender, <<>>, files0, <<>>)
    ELSE ValidateAuth(m, parse_authentication_results(m.headers), now, files0)

----------------------------------------------------------------------------
(* Persistence: _newsletter_exists and _save_newsletter *)

newsletter_exists_more_than_one(message_id, rows) ==
    Cardinality({i \in 1..Len(rows) : rows[i].message_id = message_id}) > 1

\* SELECT COUNT(*) FROM newsletters WHERE message_id = ?
newsletter_exists(message_id, rows) ==
    Cardinality({i \in 1..Len(rows) : rows[i].message_id = message_id}) > 0

Untitled == <<"(", "U", "n", "t", "i", "t", "l", "e", "d", ")">>

Row(d) ==
    [title |-> IF strip(d.subject, Whitespace) = <<>> THEN Untitled
               ELSE strip(d.subject, Whitespace),
     message_id |-> d.message_id,
     subject |-> d.subject,
     sender_email |-> d.sender_email,
     html_raw |-> d.html_raw,
     html_sanitized |-> d.html_sanitized,
     auth_results |-> d.auth_results,
     has_attachments |-> d.has_attachments,
     hero_image_path |-> d.hero_image_path]

\* [success, action, rows]; dbError: the statement or the commit raises, and
\* the transaction is rolled back.
\* lines 180-239: the write, exists being what _newsletter_exists returned at
\* line 178
WriteNewsletter(d, rows, dbError, exists) ==
    IF dbError
    THEN [success |-> FALSE, action |-> "error", rows |-> rows]
    ELSE IF exists
    THEN [success |-> TRUE, action |-> "updated",
          rows |-> [i \in 1..Len(rows) |->
                      IF rows[i].message_id = d.message_id THEN Row(d) ELSE rows[i]]]
    ELSE [success |-> TRUE, action |-> "inserted", rows |-> Append(rows, Row(d))]

save_newsletter(d, rows, dbError) ==
    WriteNewsletter(d, rows, dbError, newsletter_exists(d.message_id, rows))

----------------------------------------------------------------------------
(* Data of the model *)

IdA == <<"A", "A", "M", "k", "A", "G", "=", "0", "1">>
IdB == <<"A", "A", "M", "k", "A", "G", "=", "0", "2">>

SubjectHi == <<"H", "i", " ">>
SubjectBlank == <<" ">>

SenderIn == <<"a">> \o required_domain
SenderInUpper == upper(SenderIn)
SenderOut == <<"a", "@", "e", "v", "i", "l", ".", "n", "o">>
SenderTail == SenderIn \o <<".", "e", "v", "i", "l">>
SenderNone == <<>>

ARName == <<"A", "u", "t", "h", "e", "n", "t", "i", "c", "a", "t", "i", "o", "n", "-", "R", "e", "s", "u", "l", "t", "s">>
OtherName == <<"R", "e", "c", "e", "i", "v", "e", "d">>

Item(mech, res) == [mech |-> mech, res |-> res]
Hdr(name, value) == [name |-> name, value |-> value]

HdrAllPass == Hdr(ARName, <<Item("spf", "pass"), Item("dkim", "pass"), Item("dmarc", "pass")>>)
HdrDkimFail == Hdr(ARName, <<Item("spf", "pass"), Item("dkim", "fail")>>)
HdrDkimPass == Hdr(ARName, <<Item("dkim", "pass")>>)

Cid1 == <<"c", "1">>
Cid1Upper == <<"C", "1">>
Cid1Bracketed == <<"<", "c", "1", ">">>

AttInline == [contentId |-> Cid1Bracketed, contentBytes |-> "ok",
              contentType |-> "image/png", ext |-> ""]

HtmlPlain == <<Tok("p")>>
HtmlCid == <<Tok("p"), CidTok("imgcid", Cid1Upper), CidTok("txtcid", Cid1)>>
HtmlCommentOnly == <<Tok("comment")>>

Body(contentType, content) == [contentType |-> contentType, content |-> content]

Msg(id, subject, sender, headers, body, attachments) ==
    [message_id |-> id, subject |-> subject, sender |-> sender, headers |-> headers,
     body |-> body, attachments |-> attachments]

MsgGoodCid == Msg(IdA, SubjectHi, SenderIn, <<HdrAllPass>>, Body("html", HtmlCid), <<AttInline>>)
MsgGoodText == Msg(IdB, SubjectHi, SenderInUpper, <<>>, Body("text", <<Tok("text")>>), <<>>)
MsgBadSender == Msg(IdB, SubjectHi, SenderOut, <<HdrAllPass>>, Body("html", HtmlPlain), <<>>)
MsgAuthFail == Msg(IdA, SubjectHi, SenderIn, <<HdrDkimFail>>, Body("html", HtmlCid), <<AttInline>>)
\* an attachment with a content id that the body does not refer to
MsgGoodUnref == Msg(IdB, SubjectHi, SenderIn, <<HdrAllPass>>, Body("html", HtmlPlain), <<AttInline>>)

\* The messages a mail folder of the model may list
Msgs == {MsgGoodCid, MsgBadSender, MsgAuthFail, MsgGoodUnref}

RECURSIVE SeqsUpTo(_, _)
SeqsUpTo(S, n) ==
    IF n = 0 THEN {<<>>}
    ELSE LET shorter == SeqsUpTo(S, n - 1)
         IN shorter \cup {Append(q, x) : q \in shorter, x \in S}

\* Graph message ids are unique in a folder
DistinctIds(listing) ==
    \A i, j \in 1..Len(listing) : i # j => listing[i].message_id # listing[j].message_id

Listings == {l \in SeqsUpTo(Msgs, MaxMsgs) : DistinctIds(l)}

----------------------------------------------------------------------------
(* Fetching: GraphClient.sync_newsletters *)

RECURSIVE Fetched(_, _)
Fetched(listing, detailOk) ==
    IF listing = <<>> THEN <<>>
    ELSE (IF detailOk[1] THEN <<Head(listing)>> ELSE <<>>)
         \o Fetched(Tail(listing), [i \in 1..(Len(listing) - 1) |-> detailOk[i + 1]])

\* tokenOk: auth_manager.get_token() returned a token; folderOk:
\* resolve_folder_id returned an id; listing: what fetch_messages returned;
\* detailOk[i]: get_message_details succeeded for the i-th listed message.
\* Both exceptions are caught at line 407, which returns [].
graph_sync_newsletters(tokenOk, folderOk, listing, detailOk) ==
    IF ~tokenOk THEN [fatal |-> "token", newsletters |-> <<>>]
    ELSE IF ~folderOk THEN [fatal |-> "folder", newsletters |-> <<>>]
    ELSE [fatal |-> "none", newsletters |-> Fetched(listing, detailOk)]

----------------------------------------------------------------------------
(* The sync run: NewsletterIngestService.sync_newsletters *)

NoMsg == Msg(<<>>, <<>>, <<>>, <<>>, Body("", <<>>), <<>>)

NoMemo == [msg |-> NoMsg, ret |-> <<>>]

NoSave == [success |-> FALSE, action |-> "none"]

NoLast == [msg |-> NoMsg, valid |-> FALSE, reason |-> "", action |-> "none",
           counted |-> "none", steps |-> <<>>, dbBefore |-> <<>>, filesBefore |-> {},
           saveError |-> FALSE, produced |-> <<>>, prev |-> NoMemo]

NewReport == [success |-> FALSE, processed |-> 0, saved |-> 0, updated |-> 0,
              errors |-> 0, messages |-> <<>>]

MsgNoNewsletters == "No newsletters found in mailbox"
MsgSummary == "Newsletter sync completed"
MsgSyncFailed == "Newsletter synchronization failed"
MsgProcessingError == "Error processing newsletter"
MsgSaveFailed == "Failed to save newsletter"

Init ==
    /\ db = <<>>
    /\ files = {}
    /\ clock = 0
    /\ upstream = <<>>
    /\ raw = <<>>
    /\ pc = "idle"
    /\ idx = 0
    /\ report = NewReport
    /\ fatal = "none"
    /\ last = NoLast
    /\ hist = <<>>
    /\ memo = [id \in {m.message_id : m \in Msgs} |-> NoMemo]
    /\ uin = NoData
    /\ uout = NoSave

\* lines 288-299: g is what graph_client.sync_newsletters returned
Fetch(g, listing, dbOpens) ==
    /\ fatal' = g.fatal
    /\ raw' = g.newsletters
    /\ upstream' = IF g.fatal = "none" THEN listing ELSE upstream
    /\ IF g.newsletters = <<>>
       THEN /\ report' = [NewReport EXCEPT !.success = TRUE,
                                           !.messages = <<MsgNoNewsletters>>]
            /\ pc' = "done"
       ELSE IF ~dbOpens
       THEN \* sqlite3.connect raises: caught at line 372
            /\ report' = [NewReport EXCEPT !.messages = <<MsgSyncFailed>>]
            /\ pc' = "done"
       ELSE /\ report' = NewReport
            /\ pc' = "loop"

\* lines 272-299: the fetch, and the returns before the loop
BeginSync ==
    /\ pc \in {"idle", "done"}
    /\ \/ \E tokenOk \in BOOLEAN :
             Fetch(graph_sync_newsletters(tokenOk, FALSE, <<>>, <<>>), <<>>, TRUE)
       \/ \E dbOpens \in BOOLEAN, listing \in Listings :
          \E detailOk \in [1..Len(listing) -> BOOLEAN] :
             Fetch(graph_sync_newsletters(TRUE, TRUE, listing, detailOk), listing, dbOpens)
    /\ idx' = 0
    /\ last' = NoLast
    /\ hist' = <<>>
    /\ UNCHANGED <<db, files, clock, memo, uin, uout>>

\* lines 325-355: which counter the iteration increments; v is the validation
\* result and s what _save_newsletter returned
Counted(existsError, v, s) ==
    IF existsError THEN "errors"
    ELSE IF ~v.valid THEN "errors"
    ELSE IF ~s.success THEN "errors"
    ELSE IF s.action = "inserted" THEN "saved"
    ELSE IF s.action = "updated" THEN "updated"
    ELSE "none"

\* the entry the iteration appends to sync_result['messages']
Note(existsError, v, s) ==
    IF existsError THEN <<MsgProcessingError>>
    ELSE IF ~v.valid THEN <<v.reason>>
    ELSE IF ~s.success THEN <<MsgSaveFailed>>
    ELSE <<>>

Count_errors_uncounted(report0, counted, note) ==
    [report0 EXCEPT !.processed = @ + 1,
                    !.saved = IF counted = "saved" THEN @ + 1 ELSE @,
                    !.updated = IF counted = "updated" THEN @ + 1 ELSE @,
                    !.messages = @ \o note]

Count(report0, counted, note) ==
    [report0 EXCEPT !.processed = @ + 1,
                    !.saved = IF counted = "saved" THEN @ + 1 ELSE @,
                    !.updated = IF counted = "updated" THEN @ + 1 ELSE @,
                    !.errors = IF counted = "errors" THEN @ + 1 ELSE @,
                    !.messages = @ \o note]

IterationSaved_purges_rejected(m, existsError, saveError, v, s) ==
    /\ report' = Count(report, Counted(existsError, v, s), Note(existsError, v, s))
    /\ files' = IF existsError THEN files ELSE v.files
    /\ db' = IF ~existsError /\ v.valid THEN s.rows
             ELSE SelectSeq(db, LAMBDA row : row.message_id # m.message_id)
    /\ last' = [msg |-> m,
                valid |-> ~existsError /\ v.valid,
                reason |-> IF existsError THEN MsgProcessingError ELSE v.reason,
                action |-> IF ~existsError /\ v.valid THEN s.action
                           ELSE IF existsError THEN "raised" ELSE "none",
                counted |-> Counted(existsError, v, s),
                steps |-> IF existsError THEN <<>> ELSE v.steps,
                dbBefore |-> db,
                filesBefore |-> files,
                saveError |-> saveError,
                produced |-> IF existsError THEN <<>> ELSE v.produced,
                prev |-> IF m.message_id \in DOMAIN memo THEN memo[m.message_id] ELSE NoMemo]
    /\ hist' = Append(hist, [message_id |-> m.message_id,
                             counted |-> Counted(existsError, v, s),
                             raised |-> existsError,
                             saveError |-> saveError])
    /\ memo' = IF ~existsError /\ v.produced # <<>> /\ m.message_id \in DOMAIN memo
               THEN [memo EXCEPT ![m.message_id] = [msg |-> m, ret |-> v.produced]]
               ELSE memo

IterationSaved(m, existsError, saveError, v, s) ==
    /\ report' = Count(report, Counted(existsError, v, s), Note(existsError, v, s))
    /\ files' = IF existsError THEN files ELSE v.files
    /\ db' = IF ~existsError /\ v.valid THEN s.rows ELSE db
    /\ last' = [msg |-> m,
                valid |-> ~existsError /\ v.valid,
                reason |-> IF existsError THEN MsgProcessingError ELSE v.reason,
                action |-> IF ~existsError /\ v.valid THEN s.action
                           ELSE IF existsError THEN "raised" ELSE "none",
                counted |-> Counted(existsError, v, s),
                steps |-> IF existsError THEN <<>> ELSE v.steps,
                dbBefore |-> db,
                filesBefore |-> files,
                saveError |-> saveError,
                produced |-> IF existsError THEN <<>> ELSE v.produced,
                prev |-> IF m.message_id \in DOMAIN memo THEN memo[m.message_id] ELSE NoMemo]
    /\ hist' = Append(hist, [message_id |-> m.message_id,
                             counted |-> Counted(existsError, v, s),
                             raised |-> existsError,
                             saveError |-> saveError])
    /\ memo' = IF ~existsError /\ v.produced # <<>> /\ m.message_id \in DOMAIN memo
               THEN [memo EXCEPT ![m.message_id] = [msg |-> m, ret |-> v.produced]]
               ELSE memo

Iteration_saves_rejected(m, existsError, saveError, v) ==
    IterationSaved(m, existsError, saveError, [v EXCEPT !.valid = TRUE],
                   save_newsletter(v.data, db, saveError))

Iteration(m, existsError, saveError, v) ==
    IterationSaved(m, existsError, saveError, v, save_newsletter(v.data, db, saveError))

\* lines 300-362: one iteration of the loop. existsError: the SELECT of line
\* 315 raises; saveError: the write of _save_newsletter raises.
ProcessMessage ==
    /\ pc = "loop"
    /\ idx < Len(raw)
    /\ \E existsError, saveError \in BOOLEAN :
          Iteration(raw[idx + 1], existsError, saveError,
                    validate_newsletter(raw[idx + 1], clock, files))
    /\ idx' = idx + 1
    /\ UNCHANGED <<clock, upstream, raw, pc, fatal, uin, uout>>

\* lines 364-370: the loop is over
EndSync ==
    /\ pc = "loop"
    /\ idx = Len(raw)
    /\ report' = [report EXCEPT !.success = TRUE, !.messages = @ \o <<MsgSummary>>]
    /\ pc' = "done"
    /\ UNCHANGED <<db, files, clock, upstream, raw, idx, fatal, last, hist, memo,
                   uin, uout>>

\* datetime.now() advances
Tick ==
    /\ pc \in {"idle", "done", "loop"}
    /\ clock < MaxClock
    /\ clock' = clock + 1
    /\ UNCHANGED <<db, files, upstream, raw, pc, idx, report, fatal, last, hist,
                   memo, uin, uout>>

Next == BeginSync \/ ProcessMessage \/ EndSync \/ Tick

Spec == Init /\ [][Next]_vars

----------------------------------------------------------------------------
(* The persistence layer on its own: _save_newsletter applied to the        *)
(* processed_data of lines 134-145, before any sync of this process (the    *)
(* datastore is a file that outlives the process).                          *)

DirectFrom(m, html_content, img) ==
    ProcessedData(m, parse_authentication_results(m.headers), html_content,
                  img.ret[1], img.ret[2])

DirectRecord(m, now) ==
    DirectFrom(m, HtmlContent(m.body),
               process_inline_images(sanitize_html(HtmlContent(m.body)), m.attachments,
                                     m.message_id, now, {}))

DirectData ==
    {DirectRecord(m, t) : m \in {MsgGoodCid, MsgGoodText, MsgGoodUnref}, t \in 0..MaxClock}

Saved(d, s) ==
    /\ db' = s.rows
    /\ uin' = uin
    /\ uout' = [success |-> s.success, action |-> s.action]

SaveDirect ==
    /\ pc = "idle"
    /\ Len(db) <= MaxDirect
    /\ \E d \in DirectData, dbError \in BOOLEAN : Saved(d, save_newsletter(d, db, dbError))
    /\ UNCHANGED <<files, clock, upstream, raw, pc, idx, report, fatal, last, hist,
                   memo>>

NextStore == BeginSync \/ ProcessMessage \/ EndSync \/ SaveDirect

SpecStore == Init /\ [][NextStore]_vars

----------------------------------------------------------------------------
(* _validate_newsletter on its own, over every combination of field values *)

VIds == {<<>>, IdA}
VSubjects == {<<>>, SubjectBlank, SubjectHi}
VSenders == {SenderNone, SenderIn, SenderInUpper, SenderOut, SenderTail}
VHeaders == {<<>>,
             <<HdrAllPass>>,
             <<HdrDkimFail>>,
             <<HdrDkimFail, HdrDkimPass>>,
             <<HdrDkimPass, HdrDkimFail>>,
             <<Hdr(ARName, <<Item("dkim", "pass"), Item("dkim", "fail")>>)>>,
             <<Hdr(ARName, <<Item("DKIM", "FAIL")>>)>>,
             <<Hdr(OtherName, <<Item("dkim", "fail")>>)>>,
             <<Hdr(ARName, <<Item("spf", "softfail"), Item("dmarc", "none")>>)>>}
VBodies == {Body("html", <<>>), Body("html", HtmlCommentOnly), Body("html", HtmlPlain),
            Body("html", HtmlCid), Body("text", <<>>), Body("text", <<Tok("text")>>),
            Body("calendar", HtmlPlain)}
VAttachments == {<<>>, <<AttInline>>}

AllMessages ==
    {Msg(id, subject, sender, headers, body, attachments) :
        id \in VIds, subject \in VSubjects, sender \in VSenders, headers \in VHeaders,
        body \in VBodies, attachments \in VAttachments}

Idle ==
    /\ db = <<>>
    /\ files = {}
    /\ clock = 0
    /\ upstream = <<>>
    /\ raw = <<>>
    /\ idx = 0
    /\ report = NewReport
    /\ fatal = "none"
    /\ last = NoLast
    /\ hist = <<>>
    /\ memo = [id \in {m.message_id : m \in Msgs} |-> NoMemo]

InitValidate ==
    /\ Idle
    /\ pc = "call"
    /\ uin \in AllMessages
    /\ uout = NoSave

UnitValidate ==
    /\ pc = "call"
    /\ pc' = "return"
    /\ uout' = [res |-> validate_newsletter(uin, 0, {}),
                auth |-> parse_authentication_results(uin.headers)]
    /\ UNCHANGED <<db, files, clock, upstream, raw, idx, report, fatal, last, hist,
                   memo, uin>>

SpecValidate == InitValidate /\ [][UnitValidate]_vars

----------------------------------------------------------------------------
(* parse_authentication_results on its own, over every triple of results *)

AuthTokens == {"pass", "fail", "none", "not_found", "softfail"}

\* The header that reports the triple t: a mechanism with result not_found is
\* not mentioned.
TripleItems(t) ==
    (IF t.spf = "not_found" THEN <<>> ELSE <<Item("spf", t.spf)>>)
    \o (IF t.dkim = "not_found" THEN <<>> ELSE <<Item("dkim", t.dkim)>>)
    \o (IF t.dmarc = "not_found" THEN <<>> ELSE <<Item("dmarc", t.dmarc)>>)

InitAuth ==
    /\ Idle
    /\ pc = "call"
    /\ uin \in [spf : AuthTokens, dkim : AuthTokens, dmarc : AuthTokens]
    /\ uout = NoAuth

UnitAuth ==
    /\ pc = "call"
    /\ pc' = "return"
    /\ uout' = parse_authentication_results(<<Hdr(ARName, TripleItems(uin))>>)
    /\ UNCHANGED <<db, files, clock, upstream, raw, idx, report, fatal, last, hist,
                   memo, uin>>

SpecAuth == InitAuth /\ [][UnitAuth]_vars

----------------------------------------------------------------------------
(* process_safelinks on its own, over wrapper URLs whose query carries the  *)
(* original URL in several encodings                                        *)

EncColon == <<"%", "3", "A">>
EncColonTwice == <<"%", "2", "5", "3", "A">>
EncSlashes == <<"%", "2", "F", "%", "2", "F">>
HostE == <<"e">>
EncPath == <<"%", "2", "F", "p">>

\* the original URLs, as they are written in the url parameter of a wrapper
EncodedUrls ==
    {scheme \o (IF scheme = <<>> THEN <<>> ELSE colon) \o slashes \o host \o path :
        scheme \in {SchemeHttps, SchemeHttp, upper(SchemeHttps), SchemeFtp,
                    SchemeJavascript, SchemeData, SchemeFile, <<>>},
        colon \in {EncColon, EncColonTwice},
        slashes \in {EncSlashes, <<>>},
        host \in {HostE, <<>>},
        path \in {<<>>, EncPath}}

UrlEquals == <<"u", "r", "l", "=">>
OtherField == <<"d", "=", "1">>

\* the query strings of the wrappers
SafelinkQueries ==
    {OtherField, UrlEquals}
    \cup {UrlEquals \o v : v \in EncodedUrls}
    \cup {OtherField \o <<"&">> \o UrlEquals \o v : v \in EncodedUrls}
    \cup {UrlEquals \o v \o <<"&">> \o OtherField : v \in EncodedUrls}

InitSafelinks ==
    /\ Idle
    /\ pc = "call"
    /\ uin \in SafelinkQueries
    /\ uout = <<>>

UnitSafelinks ==
    /\ pc = "call"
    /\ pc' = "return"
    /\ uout' = process_safelinks(<<LinkTok(Href(TRUE, uin))>>)
    /\ UNCHANGED <<db, files, clock, upstream, raw, idx, report, fatal, last, hist,
                   memo, uin>>

SpecSafelinks == InitSafelinks /\ [][UnitSafelinks]_vars

----------------------------------------------------------------------------
(* sanitize_html on its own, over documents of up to MaxTokens tokens *)

MaxTokens == 2

QueryHttps == UrlEquals \o SchemeHttps \o EncColon \o EncSlashes \o HostE \o EncPath
               \o <<"&">> \o OtherField
QueryJavascript == UrlEquals \o SchemeJavascript \o EncColon \o HostE

PlainHttps == SchemeHttps \o <<":", "/", "/", "e", "/", "p">>
PlainJavascript == SchemeJavascript \o <<":", "e">>

SanTokens ==
    {Tok("p"), Tok("text"), Tok("comment"), Tok("script"), Tok("txthandler"),
     ElemTok("SCRIPT", <<>>, TRUE),
     ElemTok("Script", <<"src">>, FALSE),
     ElemTok("iframe", <<"src">>, FALSE),
     ElemTok("IFRAME", <<>>, TRUE),
     ElemTok("p", <<"onclick">>, TRUE),
     ElemTok("P", <<"ONCLICK", "class">>, TRUE),
     ElemTok("img", <<"src", "onerror">>, FALSE),
     ElemTok("div", <<"OnLoad", "style">>, TRUE),
     LinkTok(Href(TRUE, QueryHttps)),
     LinkTok(Href(TRUE, QueryJavascript)),
     LinkTok(Href(FALSE, PlainHttps)),
     LinkTok(Href(FALSE, PlainJavascript))}

InitSanitize ==
    /\ Idle
    /\ pc = "call"
    /\ uin \in SeqsUpTo(SanTokens, MaxTokens)
    /\ uout = <<>>

UnitSanitize ==
    /\ pc = "call"
    /\ pc' = "return"
    /\ uout' = sanitize_html(uin)
    /\ UNCHANGED <<db, files, clock, upstream, raw, idx, report, fatal, last, hist,
                   memo, uin>>

SpecSanitize == InitSanitize /\ [][UnitSanitize]_vars

----------------------------------------------------------------------------
(* process_inline_images on its own: documents of up to MaxTokens tokens    *)
(* that refer to content id c1 in the forms _replace_cid_references knows,  *)
(* with none, one or two attachments                                        *)

Cid1UpperBracketed == <<"<", "C", "1", ">">>
Cid2 == <<"c", "2">>

ImgTokens ==
    {Tok("p"),
     CidTok("imgcid", Cid1), CidTok("imgcid", Cid1Upper), CidTok("imgcid", Cid1Bracketed),
     CidTok("imgbare", Cid1), CidTok("imgbare", Cid1UpperBracketed),
     CidTok("txtcid", Cid1),
     CidTok("imgcid", Cid2)}

Att(contentId, contentBytes, contentType, ext) ==
    [contentId |-> contentId, contentBytes |-> contentBytes,
     contentType |-> contentType, ext |-> ext]

ImgAtts ==
    {AttInline,
     Att(Cid1, "ok", "image/jpeg", ".jpg"),
     Att(Cid1Upper, "ok", "image/gif", ""),
     Att(Cid1, "bad", "image/png", ""),
     Att(Cid1, "", "image/png", ""),
     Att(<<>>, "ok", "image/png", ".png"),
     Att(Cid2, "ok", "application/pdf", ".pdf")}

AttLists == {<<>>} \cup {<<a>> : a \in ImgAtts} \cup {<<a, b>> : a, b \in ImgAtts}

InitImages ==
    /\ Idle
    /\ pc = "call"
    /\ uin \in [html : SeqsUpTo(ImgTokens, MaxTokens), attachments : AttLists]
    /\ uout = <<>>

Returned(img) ==
    /\ uout' = img
    /\ files' = img.files

UnitImages ==
    /\ pc = "call"
    /\ pc' = "return"
    /\ Returned(process_inline_images(uin.html, uin.attachments, IdA, clock, files))
    /\ UNCHANGED <<db, clock, upstream, raw, idx, report, fatal, last, hist, memo, uin>>

SpecImages == InitImages /\ [][UnitImages]_vars

----------------------------------------------------------------------------
(* The files of the upload directory over several messages: the call of     *)
(* line 122, made for one message after another as the loop of               *)
(* sync_newsletters makes it, while the clock advances. Here hist lists the  *)
(* calls made: the message id and the files the call wrote.                  *)

MaxCalls == 3

MsgTwoFiles ==
    Msg(IdA, SubjectHi, SenderIn, <<HdrAllPass>>, Body("html", HtmlCid),
        <<AttInline, Att(Cid2, "ok", "image/png", "")>>)

SaveMsgs == {MsgGoodCid, MsgGoodUnref, MsgGoodText, MsgTwoFiles}

InitSaves ==
    /\ Idle
    /\ pc = "loop"
    /\ uin = NoMsg
    /\ uout = <<>>

Called(m, img) ==
    /\ uin' = m
    /\ uout' = img
    /\ files' = img.files
    /\ hist' = Append(hist, [message_id |-> m.message_id, saves |-> img.saves])

SaveImages ==
    /\ pc = "loop"
    /\ Len(hist) < MaxCalls
    /\ \E m \in SaveMsgs :
          Called(m, process_inline_images(sanitize_html(HtmlContent(m.body)), m.attachments,
                                          m.message_id, clock, files))
    /\ UNCHANGED <<db, clock, upstream, raw, pc, idx, report, fatal, last, memo>>

NextSaves == SaveImages \/ Tick

SpecSaves == InitSaves /\ [][NextSaves]_vars

----------------------------------------------------------------------------
(* _save_newsletter called by concurrent sync runs on one datastore file.   *)
(* Every run has its own connection (line 299). The SELECT of line 178 reads *)
(* the committed rows and opens no transaction; the UPDATE or INSERT and the *)
(* commit of line 232 are one write transaction, which SQLite serializes     *)
(* with the write transactions of the other connections. Here pc, uin and    *)
(* uout hold one value per run: the position ("check", "write", "done"), the *)
(* processed_data to save, and what the run has seen and returned.           *)

MaxRuns == 2

Runs == 1..MaxRuns

ConcurrentData == {DirectRecord(m, 0) : m \in {MsgGoodCid, MsgGoodText}}

InitConcurrent ==
    /\ Idle
    /\ pc = [r \in Runs |-> "check"]
    /\ uin \in [Runs -> ConcurrentData]
    /\ uout = [r \in Runs |-> [exists |-> FALSE, success |-> FALSE, action |-> "none"]]

\* line 178
CheckExists(r) ==
    /\ pc[r] = "check"
    /\ pc' = [pc EXCEPT ![r] = "write"]
    /\ uout' = [uout EXCEPT ![r].exists = newsletter_exists(uin[r].message_id, db)]
    /\ UNCHANGED <<db, files, clock, upstream, raw, idx, report, fatal, last, hist,
                   memo, uin>>

Written(r, s) ==
    /\ db' = s.rows
    /\ uout' = [uout EXCEPT ![r].success = s.success, ![r].action = s.action]

\* lines 180-239
WriteRow(r) ==
    /\ pc[r] = "write"
    /\ pc' = [pc EXCEPT ![r] = "done"]
    /\ \E dbError \in BOOLEAN : Written(r, WriteNewsletter(uin[r], db, dbError, uout[r].exists))
    /\ UNCHANGED <<files, clock, upstream, raw, idx, report, fatal, last, hist, memo, uin>>

\* a sequential run on the same datastore, before the concurrent ones
SaveBefore ==
    /\ \A r \in Runs : pc[r] = "check"
    /\ db = <<>>
    /\ \E d \in ConcurrentData : db' = save_newsletter(d, db, FALSE).rows
    /\ UNCHANGED <<files, clock, upstream, raw, pc, idx, report, fatal, last, hist, memo,
                   uin, uout>>

NextConcurrent == SaveBefore \/ \E r \in Runs : CheckExists(r) \/ WriteRow(r)

SpecConcurrent == InitConcurrent /\ [][NextConcurrent]_vars

----------------------------------------------------------------------------
(* Folder resolution: GraphClient.resolve_folder_id                         *)
(* A mailbox is the sequence of its root folders; a folder is               *)
(* [displayName, id, children], names and ids being text. A listing is      *)
(* named by the id of the folder whose children it lists, the listing of    *)
(* the root folders by RootListing; failing is the set of listings for      *)
(* which graph_get returns None. A resolution returns [res, calls]: res is  *)
(* [found, id] (found FALSE is None), calls the listings asked for, in      *)
(* order.                                                                   *)

Folder(displayName, id, children) ==
    [displayName |-> displayName, id |-> id, children |-> children]

NotFound == [found |-> FALSE, id |-> <<>>]
Found(id) == [found |-> TRUE, id |-> id]

Resolved(res, calls) == [res |-> res, calls |-> calls]

RootListing == <<>>

Subfolders(folders) == UNION {{f.children[i] : i \in 1..Len(f.children)} : f \in folders}

Level1(mailbox) == {mailbox[i] : i \in 1..Len(mailbox)}

\* me/mailFolders/{id}/childFolders as the mail API answers it
ChildFolders(mailbox, id, known) ==
    IF \E f \in known : f.id = id
    THEN (CHOOSE f \in known : f.id = id).children
    ELSE <<>>

\* graph_get of a folder listing: [ok, value]; ok FALSE is None
graph_get(mailbox, failing, listing) ==
    IF listing \in failing THEN [ok |-> FALSE, value |-> <<>>]
    ELSE [ok |-> TRUE,
          value |-> IF listing = RootListing THEN mailbox
                    ELSE ChildFolders(mailbox, listing,
                                      Level1(mailbox) \cup Subfolders(Level1(mailbox))
                                        \cup Subfolders(Subfolders(Level1(mailbox))))]

\* for folder in value: if folder name .lower() == name.lower(): the first one
RECURSIVE FirstNamed(_, _)
FirstNamed(folders, name) ==
    IF folders = <<>> THEN NotFound
    ELSE IF lower(Head(folders).displayName) = lower(name) THEN Found(Head(folders).id)
    ELSE FirstNamed(Tail(folders), name)

\* lines 141-166: the children of the root folders, one root after the other
RECURSIVE SearchChildren(_, _, _, _, _)
RECURSIVE SearchChildrenOf(_, _, _, _, _, _)
SearchChildrenOf(child_result, parents, display_name, mailbox, failing, calls) ==
    IF child_result.ok /\ FirstNamed(child_result.value, display_name).found
    THEN Resolved(FirstNamed(child_result.value, display_name), calls)
    ELSE SearchChildren(parents, display_name, mailbox, failing, calls)

SearchChildren(parents, display_name, mailbox, failing, calls) ==
    IF parents = <<>> THEN Resolved(NotFound, calls)
    ELSE SearchChildrenOf(graph_get(mailbox, failing, Head(parents).id), Tail(parents),
                          display_name, mailbox, failing, Append(calls, Head(parents).id))

SearchChildren_first(result, display_name, mailbox, failing) ==
    IF ~result.ok THEN Resolved(NotFound, <<RootListing>>)
    ELSE IF SearchChildren(result.value, display_name, mailbox, failing, <<RootListing>>).res.found
    THEN SearchChildren(result.value, display_name, mailbox, failing, <<RootListing>>)
    ELSE Resolved(FirstNamed(result.value, display_name), <<RootListing>>)

\* lines 117-170: result is the listing of the root folders
SearchRoot(result, display_name, mailbox, failing) ==
    IF ~result.ok THEN Resolved(NotFound, <<RootListing>>)
    ELSE IF FirstNamed(result.value, display_name).found
    THEN Resolved(FirstNamed(result.value, display_name), <<RootListing>>)
    ELSE SearchChildren(result.value, display_name, mailbox, failing, <<RootListing>>)

\* _resolve_folder_by_name
resolve_folder_by_name(display_name, mailbox, failing) ==
    SearchRoot(graph_get(mailbox, failing, RootListing), display_name, mailbox, failing)

\* line 180: [part.strip() for part in folder_path.split('/') if part.strip()]
StrippedParts(parts) ==
    SelectSeq([i \in 1..Len(parts) |-> strip(parts[i], Whitespace)],
              LAMBDA part : part # <<>>)

path_parts(folder_path) == StrippedParts(split(folder_path, "/"))

InboxName == <<"i", "n", "b", "o", "x">>

\* lines 228-263: the remaining parts, from current_folder_id down
RECURSIVE Traverse(_, _, _, _, _)
RECURSIVE TraverseListed(_, _, _, _, _)
TraverseListed(child_result, parts, mailbox, failing, calls) ==
    IF ~child_result.ok THEN Resolved(NotFound, calls)
    ELSE IF ~FirstNamed(child_result.value, Head(parts)).found THEN Resolved(NotFound, calls)
    ELSE Traverse(Tail(parts), FirstNamed(child_result.value, Head(parts)).id,
                  mailbox, failing, calls)

Traverse(parts, current_folder_id, mailbox, failing, calls) ==
    IF parts = <<>> THEN Resolved(Found(current_folder_id), calls)
    ELSE TraverseListed(graph_get(mailbox, failing, current_folder_id), parts,
                        mailbox, failing, Append(calls, current_folder_id))

StartPath_no_inbox(result, parts, mailbox, failing) ==
    IF ~result.ok THEN Resolved(NotFound, <<RootListing>>)
    ELSE IF FirstNamed(result.value, parts[1]).found
    THEN Traverse(Tail(parts), FirstNamed(result.value, parts[1]).id,
                  mailbox, failing, <<RootListing>>)
    ELSE Resolved(NotFound, <<RootListing>>)

\* lines 196-225: where the traversal starts; result is the listing of the
\* root folders
StartPath(result, parts, mailbox, failing) ==
    IF ~result.ok THEN Resolved(NotFound, <<RootListing>>)
    ELSE IF FirstNamed(result.value, parts[1]).found
    THEN Traverse(Tail(parts), FirstNamed(result.value, parts[1]).id,
                  mailbox, failing, <<RootListing>>)
    ELSE IF FirstNamed(result.value, InboxName).found
    THEN Traverse(parts, FirstNamed(result.value, InboxName).id,
                  mailbox, failing, <<RootListing>>)
    ELSE Resolved(NotFound, <<RootListing>>)

\* _resolve_folder_by_path
resolve_folder_by_path(parts, mailbox, failing) ==
    IF parts = <<>> THEN Resolved(NotFound, <<>>)
    ELSE StartPath(graph_get(mailbox, failing, RootListing), parts, mailbox, failing)

resolve_folder_id_searches(explicit_folder_id, display_name_or_path, mailbox, failing) ==
    IF \E i \in 1..Len(display_name_or_path) : display_name_or_path[i] = "/"
    THEN resolve_folder_by_path(path_parts(display_name_or_path), mailbox, failing)
    ELSE resolve_folder_by_name(display_name_or_path, mailbox, failing)

\* resolve_folder_id; explicit_folder_id is os.environ.get('NEWSLETTER_FOLDER_ID', '')
resolve_folder_id(explicit_folder_id, display_name_or_path, mailbox, failing) ==
    IF strip(explicit_folder_id, Whitespace) # <<>>
    THEN Resolved(Found(strip(explicit_folder_id, Whitespace)), <<>>)
    ELSE IF \E i \in 1..Len(display_name_or_path) : display_name_or_path[i] = "/"
    THEN resolve_folder_by_path(path_parts(display_name_or_path), mailbox, failing)
    ELSE resolve_folder_by_name(display_name_or_path, mailbox, failing)

\* resolve_folder_id on its own

Inbox == <<"I", "n", "b", "o", "x">>
Ap == <<"A", "p">>
Mk == <<"M", "k">>
Zz == <<"Z", "z">>

Path(a, b) == a \o <<"/">> \o b

Mailboxes ==
    {<<Folder(Inbox, <<"1">>, <<Folder(Ap, <<"7">>, <<Folder(Mk, <<"8">>, <<>>)>>)>>)>>,
     <<Folder(Mk, <<"2">>, <<Folder(lower(Ap), <<"5">>, <<>>)>>),
       Folder(upper(Inbox), <<"1">>, <<Folder(Ap, <<"7">>, <<>>), Folder(Mk, <<"6">>, <<>>)>>)>>,
     <<Folder(Inbox, <<"1">>, <<Folder(Mk, <<"2">>, <<Folder(Ap, <<"7">>, <<>>)>>)>>),
       Folder(Zz, <<"3">>, <<Folder(Zz, <<"4">>, <<>>)>>)>>,
     <<Folder(Mk, <<"2">>, <<Folder(Ap, <<"5">>, <<>>)>>),
       Folder(upper(Ap), <<"3">>, <<>>)>>}

FolderSpecs ==
    {Ap, lower(Ap), Zz, Mk,
     Path(Inbox, Ap), Path(lower(Inbox), upper(Ap)), Path(Ap, <<>>), Path(Mk, Ap),
     Path(Inbox, Path(Mk, Ap)), Path(Inbox \o <<" ">>, <<" ">> \o Ap),
     Path(<<>>, <<>>), Path(Inbox, Path(<<>>, Ap)), Path(Inbox, Zz), Path(Zz, Path(Zz, Ap))}

ExplicitIds == {<<>>, <<" ">>, <<"9">>, <<" ", "9", " ">>}

FolderListings(mailbox) ==
    {RootListing} \cup {f.id : f \in Level1(mailbox) \cup Subfolders(Level1(mailbox))}

InitFolders ==
    /\ Idle
    /\ pc = "call"
    /\ \E mailbox \in Mailboxes :
          uin \in [explicit : ExplicitIds, spec : FolderSpecs, mailbox : {mailbox},
                   failing : SUBSET FolderListings(mailbox)]
    /\ uout = <<>>

UnitFolders ==
    /\ pc = "call"
    /\ pc' = "return"
    /\ uout' = resolve_folder_id(uin.explicit, uin.spec, uin.mailbox, uin.failing)
    /\ UNCHANGED <<db, files, clock, upstream, raw, idx, report, fatal, last, hist,
                   memo, uin>>

SpecFolders == InitFolders /\ [][UnitFolders]_vars

----------------------------------------------------------------------------
(* What the claims refer to, stated apart from the code's operators *)

\* the address ends, ignoring case, with the required domain suffix
InDomainCI(addr) ==
    /\ Len(addr) >= Len(required_domain)
    /\ \A k \in 1..Len(required_domain) :
          LowerChar(addr[Len(addr) - Len(required_domain) + k]) = LowerChar(required_domain[k])

\* fail if any mechanism is fail; else pass if every present mechanism is pass
\* or none; else partial
RefOverall(spf, dkim, dmarc) ==
    IF "fail" \in {spf, dkim, dmarc} THEN "fail"
    ELSE IF ({spf, dkim, dmarc} \ {"not_found"}) \subseteq {"pass", "none"} THEN "pass"
    ELSE "partial"

\* the body has content that resolves to HTML: an html body, or a plain-text
\* body (which is wrapped into a container), whose content is not empty
Resolvable(body) ==
    /\ body.contentType \in {"html", "text"}
    /\ body.content # <<>>

SubjectPresent(m) == \E i \in 1..Len(m.subject) : m.subject[i] # " "

\* the six checks of the validation order
PassesSixChecks(m) ==
    /\ m.message_id # <<>>
    /\ SubjectPresent(m)
    /\ InDomainCI(m.sender)
    /\ parse_authentication_results(m.headers).overall # "fail"
    /\ Resolvable(m.body)
    /\ sanitize_html(HtmlContent(m.body)) # <<>>

\* the reason of the first of the six checks that m fails
FirstFailedReason(m) ==
    IF m.message_id = <<>> THEN ReasonMissingId
    ELSE IF ~SubjectPresent(m) THEN ReasonMissingSubject
    ELSE IF ~InDomainCI(m.sender) THEN ReasonSender
    ELSE IF parse_authentication_results(m.headers).overall = "fail" THEN ReasonAuth
    ELSE IF ~Resolvable(m.body) THEN ReasonNoContent
    ELSE ReasonSanitize

Ran(step, steps) == \E i \in 1..Len(steps) : steps[i] = step

\* an iteration of the loop has handled last.msg without the SELECT raising
Handled == last.msg # NoMsg /\ last.action # "raised"

----------------------------------------------------------------------------
(* Claims *)

\* C1: no two rows of newsletters share a message_id, after any sequence of
\* saves and sync runs, failed saves and rejected messages included.
C1_UniqueMessageIds ==
    \A i, j \in 1..Len(db) : i # j => db[i].message_id # db[j].message_id

\* C1 witness: a row was updated in place, a second row exists, and a sync
\* that rejected a message has finished.
C1_Witness ==
    /\ Len(db) = 2
    /\ uout.action = "updated"
    /\ pc = "done"
    /\ report.processed = 2
    /\ report.errors > 0

\* C2 (as claimed): a message that passes the checks and whose message_id has a
\* row is counted as updated, its action is 'updated', the row count is kept.
C2_ExistingIsUpdated ==
    (/\ Handled
     /\ ~last.saveError
     /\ PassesSixChecks(last.msg)
     /\ newsletter_exists(last.msg.message_id, last.dbBefore))
    => /\ last.action = "updated"
       /\ last.counted = "updated"
       /\ Len(db) = Len(last.dbBefore)

\* C3 (as claimed): a message that passes the six checks is validated, goes
\* through sanitizing and image embedding, and (the write succeeding) has a
\* row afterwards and is counted in saved or updated.
C3_PassingIsPersisted ==
    (Handled /\ PassesSixChecks(last.msg))
    => /\ last.valid
       /\ Ran("sanitize", last.steps) /\ Ran("images", last.steps)
       /\ ~last.saveError
            => /\ newsletter_exists(last.msg.message_id, db)
               /\ last.counted \in {"saved", "updated"}

C5_FatalIsReported ==
    (pc = "done" /\ fatal \in {"token", "folder"})
    => /\ report.processed = 0
       /\ report.success = FALSE

\* C6 (as claimed): at return every message of the list has been processed
\* once, in order, and a message that follows a failed one and passes the
\* checks has been persisted.
C6_BadMessageDoesNotAbort ==
    (pc = "done" /\ report.success /\ raw # <<>>)
    => /\ report.processed = Len(raw)
       /\ Len(hist) = Len(raw)
       /\ \A i \in 1..Len(raw) : hist[i].message_id = raw[i].message_id
       /\ \A i \in 2..Len(raw) :
            (/\ hist[i - 1].counted = "errors"
             /\ PassesSixChecks(raw[i])
             /\ ~hist[i].raised /\ ~hist[i].saveError)
            => /\ hist[i].counted \in {"saved", "updated"}
               /\ newsletter_exists(raw[i].message_id, db)

\* C7 (as claimed): a sender outside the required domain, or no sender, gives
\* the reason 'invalid sender domain' whatever the other fields are.
C7_Original ==
    (pc = "return" /\ ~InDomainCI(uin.sender))
    => uout.res.reason = ReasonSender

\* C7 (amended): a message whose sender is outside the required domain, or
\* missing, is rejected whatever its other fields are, and the reason is
\* 'invalid sender domain' when its message id and subject are present.
C7_BadSenderRejected ==
    (pc = "return" /\ ~InDomainCI(uin.sender))
    => /\ ~uout.res.valid
       /\ uout.res.data = NoData
       /\ (uin.message_id # <<>> /\ SubjectPresent(uin)) => uout.res.reason = ReasonSender

\* C7 witness: the domain followed by another suffix, with content that would
\* pass every other check.
C7_Witness ==
    /\ pc = "return"
    /\ uin.sender = SenderTail
    /\ uin.headers = <<HdrAllPass>>
    /\ uin.body = Body("html", HtmlCid)
    /\ uout.res.reason = ReasonSender

\* whether an Authentication-Results header reports fail for a mechanism
CarriesFail(headers) ==
    \E i \in 1..Len(headers) :
       /\ lower(headers[i].name) = AuthHeaderName
       /\ \E k \in 1..Len(headers[i].value) :
             /\ lowerWord(headers[i].value[k].mech) \in {"spf", "dkim", "dmarc"}
             /\ lowerWord(headers[i].value[k].res) = "fail"

\* C8 (as claimed): a message with an Authentication-Results header that
\* reports a fail gets overall verdict fail, and with id, subject and sender
\* in order it is rejected for failed authentication.
C8_AnyFailIsRejected ==
    (pc = "return" /\ CarriesFail(uin.headers))
    => /\ uout.auth.overall = "fail"
       /\ (uin.message_id # <<>> /\ SubjectPresent(uin) /\ InDomainCI(uin.sender))
            => uout.res.reason = ReasonAuth

\* C9: for every triple of mechanism results the parsed results are the triple
\* and overall is fail if any is fail, else pass if every present one is pass
\* or none, else partial.
C9_OverallMatchesReference ==
    pc = "return"
    => /\ uout.spf = uin.spf /\ uout.dkim = uin.dkim /\ uout.dmarc = uin.dmarc
       /\ uout.overall = RefOverall(uin.spf, uin.dkim, uin.dmarc)

\* C9 witness: a fail next to a pass, with the third mechanism absent.
C9_Witness ==
    /\ pc = "return"
    /\ uin = [spf |-> "pass", dkim |-> "fail", dmarc |-> "not_found"]
    /\ uout.overall = "fail"

\* C10 (as claimed): the reason of a message that fails one of the six checks
\* is that of the first check it fails, and sanitizing and attachment saving do
\* not run for a message rejected by an earlier check.
C10_FirstFailedCheckDecides ==
    pc = "return"
    => /\ ~PassesSixChecks(uin)
            => ~uout.res.valid /\ uout.res.reason = FirstFailedReason(uin)
       /\ uout.res.reason \in {ReasonMissingId, ReasonMissingSubject, ReasonSender,
                               ReasonAuth, ReasonNoContent}
            => /\ ~Ran("sanitize", uout.res.steps)
               /\ ~Ran("images", uout.res.steps)
               /\ uout.res.files = {}
       /\ uout.res.reason = ReasonSanitize
            => ~Ran("images", uout.res.steps) /\ uout.res.files = {}

\* the six reasons a rejection may carry
SixReasons ==
    {ReasonMissingId, ReasonMissingSubject, ReasonSender, ReasonAuth, ReasonNoContent,
     ReasonSanitize}

\* C11 (as claimed): a rejection returned by validation carries one of the six
\* reasons, for every message.
C11_SixReasonsOnly ==
    (pc = "return" /\ ~uout.res.valid) => uout.res.reason \in SixReasons

\* the listed messages whose detail fetch failed in the running sync
DetailFailures == Len(upstream) - Len(raw)

HistErrors == Cardinality({i \in 1..Len(hist) : hist[i].counted = "errors"})

\* C12 (as claimed): in the report of a sync that ran to its end, errors counts
\* one for every listed message whose detail fetch failed, next to the errors
\* of the messages the loop handled.
C12_DetailFailureCounted ==
    (pc = "done" /\ fatal = "none" /\ report.success)
    => report.errors = HistErrors + DetailFailures

\* a cid reference of the HTML was replaced by a local path
Substituted(html) == \E k \in 1..Len(html) : html[k].t \in {"imglocal", "txtlocal"}

C14_SaveFailureIsContained ==
    /\ (Handled /\ PassesSixChecks(last.msg) /\ last.saveError)
         => db = last.dbBefore /\ last.counted = "errors"
    /\ (pc = "done" /\ report.success)
         => \A i \in 1..Len(hist) : \A j \in (i + 1)..Len(hist) :
               (/\ PassesSixChecks(raw[i]) /\ ~hist[i].raised /\ hist[i].saveError
                /\ PassesSixChecks(raw[j]) /\ ~hist[j].raised /\ ~hist[j].saveError)
               => /\ hist[j].counted \in {"saved", "updated"}
                  /\ newsletter_exists(raw[j].message_id, db)

\* a <script> or <iframe> element, or an element with an on* handler
\* attribute, in any letter case
Dangerous(tok) ==
    \/ tok.t = "script"
    \/ /\ tok.t = "elem"
       /\ \/ lowerName(tok.tag) \in {"script", "iframe"}
          \/ \E k \in 1..Len(tok.attrs) : lowerName(tok.attrs[k]) \in HandlerNames

DecodedUrlParam(query) == FirstUrlParam(parse_qs(query))

\* an http or https URL with a host
HttpWithHost(url) == Scheme(url) \in {SchemeHttp, SchemeHttps} /\ Netloc(url) # <<>>

\* an anchor whose href is a wrapper that carries an http(s) URL with a host
WrapsHttp(tok) ==
    /\ tok.t = "a"
    /\ tok.href.wrapper
    /\ HasUrlParam(parse_qs(tok.href.text))
    /\ HttpWithHost(DecodedUrlParam(tok.href.text))

\* C16 (as claimed): after sanitization an anchor whose href was a wrapper of
\* an http(s) URL with a host has that URL as its href, and no such wrapper is
\* left in the HTML.
C16_WrapperUnwrapped ==
    pc = "return"
    => \A i \in 1..Len(uin) :
          WrapsHttp(uin[i])
          => /\ \A j \in 1..Len(uout) : ~WrapsHttp(uout[j])
             /\ \E j \in 1..Len(uout) :
                   /\ uout[j].t = "a"
                   /\ uout[j].href = Href(FALSE, DecodedUrlParam(uin[i].href.text))

\* C17 (as claimed): a wrapper without url parameter, or whose decoded url
\* parameter is not an http(s) URL with a host, is left as it is; a wrapper is
\* replaced only by an http(s) URL with a host.
C17_UnsafeWrapperKept ==
    pc = "return"
    => /\ (~HasUrlParam(parse_qs(uin)) \/ ~HttpWithHost(DecodedUrlParam(uin)))
            => uout = <<LinkTok(Href(TRUE, uin))>>
       /\ uout # <<LinkTok(Href(TRUE, uin))>>
            => /\ ~uout[1].href.wrapper
               /\ HttpWithHost(uout[1].href.text)

\* the token refers to content id x: cid:x or cid:<x>, in any letter case
RefersTo(tok, x) ==
    /\ tok.t \in {"imgcid", "imgbare", "txtcid"}
    /\ lower(strip(tok.cid, {"<", ">"})) = lower(x)

\* the attachment carries content id x, bracketed or not, and bytes that decode
Provides(att, x) ==
    /\ att.contentId # <<>>
    /\ lower(strip(att.contentId, {"<", ">"})) = lower(x)
    /\ att.contentBytes = "ok"

SavedFor(saves, name, x) ==
    \E n \in 1..Len(saves) : saves[n].name = name /\ lower(saves[n].content_id) = lower(x)

ImageTypes == {"image/jpeg", "image/png", "image/gif"}

\* C19: every file process_inline_images writes, and every file it puts into
\* the HTML, comes from an attachment that has a content id and an image
\* content type.
C19_OnlyInlineImagesStored ==
    pc = "return"
    => /\ files = {uout.saves[n].name : n \in 1..Len(uout.saves)}
       /\ \A n \in 1..Len(uout.saves) :
             /\ uout.saves[n].content_id # <<>>
             /\ uout.saves[n].contentType \in ImageTypes
       /\ \A j \in 1..Len(uout.ret[1]) :
             uout.ret[1][j].t \in {"imglocal", "txtlocal"}
             => \E n \in 1..Len(uout.saves) :
                   /\ uout.saves[n].name = uout.ret[1][j].file
                   /\ uout.saves[n].contentType \in ImageTypes

\* C20: two saves for different (message_id, content id) pairs never write
\* the same file name.
C20_NoFilenameCollision ==
    \A i, j \in 1..Len(hist) :
       \A a \in 1..Len(hist[i].saves), b \in 1..Len(hist[j].saves) :
          (hist[i].message_id # hist[j].message_id
             \/ hist[i].saves[a].content_id # hist[j].saves[b].content_id)
          => hist[i].saves[a].name # hist[j].saves[b].name

\* the saves of the call whose file is referred to in the returned HTML
UsedSaves(html, saves) ==
    {n \in 1..Len(saves) :
        \E j \in 1..Len(html) :
           html[j].t \in {"imglocal", "txtlocal"} /\ html[j].file = saves[n].name}

HeroOf(ret, saves, used) ==
    IF used = {}
    THEN ret[2] = NoFile /\ ret[3] = FALSE
    ELSE /\ ret[3] = TRUE
         /\ \E n \in used : (\A k \in used : n <= k) /\ ret[2] = saves[n].name

\* C25: the hero image is the file of the first attachment, in list order,
\* whose substitution replaced something in the HTML; it is null, and the
\* flag false, exactly when no substitution replaced anything.
C25_HeroIsFirstReplaced ==
    pc = "return" => HeroOf(uout.ret, uout.saves, UsedSaves(uout.ret[1], uout.saves))

C25_Witness ==
    /\ pc = "return"
    /\ uin.html = <<CidTok("imgcid", Cid1)>>
    /\ uin.attachments = <<Att(Cid2, "ok", "application/pdf", ".pdf"), AttInline>>
    /\ Len(uout.saves) = 2
    /\ uout.ret[2] = uout.saves[2].name
    /\ uout.ret[3]

\* the message passes the four checks that precede the content check
PassesFirstFour(m) ==
    /\ m.message_id # <<>>
    /\ SubjectPresent(m)
    /\ InDomainCI(m.sender)
    /\ parse_authentication_results(m.headers).overall # "fail"

\* C26 (as claimed): a message that reaches the content check with an empty
\* body content, of content type html or text, is rejected with 'No content
\* found' and is not sanitized.
C26_EmptyContentRejected ==
    (pc = "return" /\ PassesFirstFour(uin) /\ uin.body.content = <<>>)
    => /\ ~uout.res.valid
       /\ uout.res.reason = ReasonNoContent
       /\ ~Ran("sanitize", uout.res.steps)

\* C27: at every message boundary of a sync run, and in the report it
\* returns, processed = saved + updated + errors.
C27_CountersAddUp ==
    report.processed = report.saved + report.updated + report.errors

C27_Witness ==
    /\ pc = "done"
    /\ report.success
    /\ report.processed = 2
    /\ report.errors = 2
    /\ hist[1].raised /\ ~hist[2].raised

\* the record could have been written from a message that passes validation
RecordIsValidated(row) ==
    /\ row.message_id # <<>>
    /\ \E k \in 1..Len(row.subject) : row.subject[k] # " "
    /\ InDomainCI(row.sender_email)
    /\ row.auth_results.overall # "fail"

\* C28: every record has a message id, a subject, a sender of the required
\* domain and a verdict other than fail, and the iteration of a rejected
\* message writes no record.
C28_NoRecordFromRejected ==
    /\ \A i \in 1..Len(db) : RecordIsValidated(db[i])
    /\ (last.msg # NoMsg /\ ~last.valid) => db = last.dbBefore

C28_Witness ==
    /\ last.msg = MsgBadSender
    /\ last.reason = ReasonSender
    /\ last.counted = "errors"
    /\ Len(db) = 2
    /\ db = last.dbBefore

\* C29: an iteration deletes no record, moves none, and changes only the
\* record of its own message, and that only when the message validated.
C29_OtherRecordsUntouched ==
    last.msg # NoMsg
    => /\ Len(db) >= Len(last.dbBefore)
       /\ \A i \in 1..Len(last.dbBefore) :
             /\ db[i].message_id = last.dbBefore[i].message_id
             /\ db[i] # last.dbBefore[i]
                   => last.valid /\ db[i].message_id = last.msg.message_id

C29_Witness ==
    /\ last.msg = MsgAuthFail
    /\ last.reason = ReasonAuth
    /\ \E i \in 1..Len(db) :
          db[i].message_id = IdA /\ db[i].auth_results.overall = "pass"
    /\ db = last.dbBefore

NamedAt(folders, name) ==
    {i \in 1..Len(folders) : lower(folders[i].displayName) = lower(name)}

Lowest(positions) == CHOOSE i \in positions : \A k \in positions : i <= k

\* the folder the segments lead to, going down from folder
RECURSIVE RefWalk(_, _)
RefWalk(segments, folder) ==
    IF segments = <<>> THEN Found(folder.id)
    ELSE IF NamedAt(folder.children, Head(segments)) = {} THEN NotFound
    ELSE RefWalk(Tail(segments),
                 folder.children[Lowest(NamedAt(folder.children, Head(segments)))])

\* resolution of a path as claimed: the first segment at root, else from
\* the root folder named Inbox with every segment still to be matched
RefPath(segments, mailbox) ==
    IF segments = <<>> THEN NotFound
    ELSE IF NamedAt(mailbox, Head(segments)) # {}
    THEN RefWalk(Tail(segments), mailbox[Lowest(NamedAt(mailbox, Head(segments)))])
    ELSE IF NamedAt(mailbox, Inbox) # {}
    THEN RefWalk(segments, mailbox[Lowest(NamedAt(mailbox, Inbox))])
    ELSE NotFound

\* the root folders that have a direct child of the name
ParentsOf(name, mailbox) ==
    {i \in 1..Len(mailbox) : NamedAt(mailbox[i].children, name) # {}}

\* resolution of a bare name as claimed: root first, then the first matching
\* child, root folders taken in listing order
RefName(name, mailbox) ==
    IF NamedAt(mailbox, name) # {} THEN Found(mailbox[Lowest(NamedAt(mailbox, name))].id)
    ELSE IF ParentsOf(name, mailbox) = {} THEN NotFound
    ELSE RefWalk(<<name>>, mailbox[Lowest(ParentsOf(name, mailbox))])

IsPath(spec) == \E i \in 1..Len(spec) : spec[i] = "/"

NoExplicitId == \A i \in 1..Len(uin.explicit) : uin.explicit[i] = " "

\* one of the listings the resolution asked for has failed
ListingFailed == \E k \in 1..Len(uout.calls) : uout.calls[k] \in uin.failing

\* C21 (as claimed): a resolution one of whose listing calls failed returns
\* None, for path and bare-name specs.
C21_FailedListingAborts ==
    (pc = "return" /\ NoExplicitId /\ ListingFailed) => ~uout.res.found

\* C22: without explicit id and with every listing answered, a path spec
\* resolves to the folder its segments lead to from the root folder of the
\* first segment, or from Inbox when the first segment is no root folder,
\* and to None as soon as a segment has no match.
C22_PathResolution ==
    (pc = "return" /\ NoExplicitId /\ IsPath(uin.spec) /\ ~ListingFailed)
    => uout.res = RefPath(path_parts(uin.spec), uin.mailbox)

C22_Witness ==
    /\ pc = "return"
    /\ uin.explicit = <<>>
    /\ uin.spec = Path(Inbox, Ap)
    /\ uin.mailbox = <<Folder(Inbox, <<"1">>, <<Folder(Ap, <<"7">>, <<Folder(Mk, <<"8">>, <<>>)>>)>>)>>
    /\ uin.failing = {}
    /\ uout = Resolved(Found(<<"7">>), <<RootListing, <<"1">>>>)

\* C23: without explicit id and with every listing answered, a bare name
\* resolves to the first root folder of that name, else to the first
\* direct child of that name, root folders taken in listing order, and to
\* None when neither level has it.
C23_NameResolution ==
    (pc = "return" /\ NoExplicitId /\ ~IsPath(uin.spec) /\ ~ListingFailed)
    => uout.res = RefName(uin.spec, uin.mailbox)

C23_Witness ==
    /\ pc = "return"
    /\ uin.explicit = <<" ">>
    /\ uin.spec = Ap
    /\ Len(uin.mailbox) = 2
    /\ uin.mailbox[1].displayName = Mk
    /\ uin.mailbox[2].displayName = upper(Inbox)
    /\ uin.failing = {}
    /\ uout = Resolved(Found(<<"5">>), <<RootListing, <<"2">>>>)

\* C24: a configured explicit id is returned, for every folder spec, and no
\* listing is asked for.
C24_ExplicitIdWins ==
    (pc = "return" /\ ~NoExplicitId)
    => /\ uout.res.found
       /\ uout.res.id = strip(uin.explicit, {" "})
       /\ uout.calls = <<>>

C24_Witness ==
    /\ pc = "return"
    /\ uin.explicit = <<" ", "9", " ">>
    /\ uin.spec = Path(Inbox, Ap)
    /\ RootListing \in uin.failing
    /\ uout = Resolved(Found(<<"9">>), <<>>)

====
